---- MODULE Spec2Model ----
(***************************************************************************)
(* kj-speech-mcp: the speak and list_voices tool handlers, the argument    *)
(* list built for /usr/bin/say, the formatting of command failures and the *)
(* parser of the "say -v ?" voice catalog.                                 *)
(*                                                                         *)
(* The repository holds two builds of the program: main.go, where each     *)
(* handler formats its own failures inline, and a second file (part_000)   *)
(* where both handlers share formatCommandError.  The variable build says  *)
(* which one is running.                                                   *)
(*                                                                         *)
(* ctxAtExit is a history variable: the state of a request's context at    *)
(* the moment cmd.CombinedOutput() returned.                               *)
(*                                                                         *)
(* Strings are sequences of atoms: one-character strings for text, voice,  *)
(* catalog output and command-line tokens; whole words for the fixed parts *)
(* of messages.  Sprintf and += are concatenation (\o).                    *)
(***************************************************************************)
EXTENDS Integers, Sequences, FiniteSets, TLC

VARIABLES build, pc, req, ctx, text, argv, invoked, proc, perr, pout, ctxAtExit,
          ret, returns, output, lines, idx, voices, ppc

hvars == <<build, pc, req, ctx, text, argv, invoked, proc, perr, pout, ctxAtExit,
          ret, returns>>
pvars == <<output, lines, idx, voices, ppc>>
vars == <<build, pc, req, ctx, text, argv, invoked, proc, perr, pout, ctxAtExit,
          ret, returns, output, lines, idx, voices, ppc>>

(***************************************************************************)
(* Strings                                                                 *)
(***************************************************************************)

\* unicode.IsSpace, on the characters the model uses
IsSpace(c) == c \in {" ", "\t", "\r", "\n"}

RECURSIVE TrimLeft(_)
TrimLeft(s) ==
    IF s = <<>> THEN <<>>
    ELSE IF IsSpace(Head(s)) THEN TrimLeft(Tail(s)) ELSE s

RECURSIVE TrimRight(_)
TrimRight(s) ==
    IF s = <<>> THEN <<>>
    ELSE IF IsSpace(s[Len(s)]) THEN TrimRight(SubSeq(s, 1, Len(s) - 1)) ELSE s

\* strings.TrimSpace
TrimSpace(s) == TrimRight(TrimLeft(s))

\* strings.Contains
Contains(s, sub) ==
    \E i \in 1..(Len(s) - Len(sub) + 1) : SubSeq(s, i, i + Len(sub) - 1) = sub

Digit(d) == CASE d = 0 -> "0" [] d = 1 -> "1" [] d = 2 -> "2" [] d = 3 -> "3"
              [] d = 4 -> "4" [] d = 5 -> "5" [] d = 6 -> "6" [] d = 7 -> "7"
              [] d = 8 -> "8" [] d = 9 -> "9"

\* the decimal rendering of a natural number
RECURSIVE Itoa(_)
Itoa(n) == IF n < 10 THEN <<Digit(n)>> ELSE Itoa(n \div 10) \o <<Digit(n % 10)>>

(***************************************************************************)
(* Voice catalog parser (handleVoices, the loop over the lines)            *)
(***************************************************************************)

\* strings.Split(s, sep) for a one-character separator
RECURSIVE Split(_, _)
Split(s, sep) ==
    IF \A i \in 1..Len(s) : s[i] # sep
    THEN <<s>>
    ELSE LET i == CHOOSE k \in 1..Len(s) :
                      s[k] = sep /\ \A j \in 1..(k - 1) : s[j] # sep
         IN  <<SubSeq(s, 1, i - 1)>> \o Split(SubSeq(s, i + 1, Len(s)), sep)

AllSpace(s, a, b) == \A x \in a..b : IsSpace(s[x])
NoSpace(s, a, b) == \A x \in a..b : ~IsSpace(s[x])
\* "." matches every character but the newline
AllDot(s, a, b) == \A x \in a..b : s[x] # "\n"

\* The ways ^(.+?)\s+(\S+)\s+#\s*(.*)$ can match the whole of line: <<i,j,k,l,m>>
\* with (.+?) = line[1..i], \s+ = line[i+1..j], (\S+) = line[j+1..k],
\* \s+ = line[k+1..l], # = line[l+1], \s* = line[l+2..m], (.*) = line[m+1..].
Candidates(line) ==
    LET n == Len(line) IN
    UNION { UNION { UNION { UNION {
        { <<i, j, k, l, m>> :
            m \in { m \in (l + 1)..n : AllSpace(line, l + 2, m)
                                       /\ AllDot(line, m + 1, n) } } :
            l \in { l \in (k + 1)..(n - 1) : AllSpace(line, k + 1, l)
                                             /\ line[l + 1] = "#" } } :
            k \in { k \in (j + 1)..n : NoSpace(line, j + 1, k) } } :
            j \in { j \in (i + 1)..n : AllSpace(line, i + 1, j) } } :
            i \in { i \in 1..n : AllDot(line, 1, i) } }

\* leftmost-first priority: (.+?) takes as little as it can, every other
\* quantifier as much as it can, the earlier quantifier deciding first
Prefer(c, d) ==
    \/ c[1] < d[1]
    \/ c[1] = d[1] /\ c[2] > d[2]
    \/ c[1] = d[1] /\ c[2] = d[2] /\ c[3] > d[3]
    \/ c[1] = d[1] /\ c[2] = d[2] /\ c[3] = d[3] /\ c[4] > d[4]
    \/ c[1] = d[1] /\ c[2] = d[2] /\ c[3] = d[3] /\ c[4] = d[4] /\ c[5] >= d[5]

\* voicePattern.FindStringSubmatch(line): the whole match and the three
\* groups, or the empty sequence (nil) when the line does not match
voicePattern(line) ==
    LET C == Candidates(line) IN
    IF C = {} THEN <<>>
    ELSE LET c == CHOOSE c \in C : \A d \in C : Prefer(c, d)
         IN  << line,
                SubSeq(line, 1, c[1]),
                SubSeq(line, c[2] + 1, c[3]),
                SubSeq(line, c[5] + 1, Len(line)) >>

Voice(name, locale, description) ==
    [Name |-> name, Locale |-> locale, Description |-> description]

\* one iteration of the loop: the records the line appends to voices
ParseLine(rawLine) ==
    LET line == TrimSpace(rawLine) IN
    IF line = <<>> THEN <<>>
    ELSE LET matches == voicePattern(line) IN
         IF Len(matches) = 4
         THEN << Voice(TrimSpace(matches[2]), TrimSpace(matches[3]),
                       TrimSpace(matches[4])) >>
         ELSE <<>>

\* the loop with each record put in front of voices instead of appended
RECURSIVE ParseLinesPrepending(_)
ParseLinesPrepending(ls) ==
    IF ls = <<>> THEN <<>>
    ELSE ParseLinesPrepending(Tail(ls)) \o ParseLine(Head(ls))

\* for _, line := range lines { ... voices = append(voices, ...) }
RECURSIVE ParseLines(_)
ParseLines(ls) ==
    IF ls = <<>> THEN <<>> ELSE ParseLine(Head(ls)) \o ParseLines(Tail(ls))

ParseVoices(out) == ParseLines(Split(out, "\n"))

(***************************************************************************)
(* Values, errors and tool results                                         *)
(***************************************************************************)

\* a value of the loosely-typed argument map (request.GetArguments())
Absent == [t |-> "absent", s |-> <<>>, n |-> 0]
Str(s) == [t |-> "string", s |-> s, n |-> 0]
\* a JSON number (float64), held in units of 1/RateScale
Num(n) == [t |-> "number", s |-> <<>>, n |-> n]
Bool == [t |-> "bool", s |-> <<>>, n |-> 0]

NilErr == [nil |-> TRUE, msg |-> <<>>]
Err(msg) == [nil |-> FALSE, msg |-> msg]

NewToolResultError(msg) == [isError |-> TRUE, text |-> msg]
NewToolResultText(msg) == [isError |-> FALSE, text |-> msg]

\* what a handler returns: (*mcp.CallToolResult, error)
NoReturn == [has |-> FALSE, result |-> NewToolResultText(<<>>), err |-> NilErr]
\* an error result handed back as the handler's error: return nil, err
ReturnFault(result) ==
    IF result.isError
    THEN [has |-> FALSE, result |-> NewToolResultText(<<>>), err |-> Err(result.text)]
    ELSE [has |-> TRUE, result |-> result, err |-> NilErr]

\* return result, nil
ReturnResult(result) == [has |-> TRUE, result |-> result, err |-> NilErr]

sayCommand == <<"/usr/bin/say">>

permissionGuidance ==
    << "\n\nPermission denied. Please ensure:",
       "\n1. The application has accessibility permissions in System Preferences",
       "\n2. You are running in a user session with audio output available",
       "\n3. You are not running in an SSH session without audio forwarding" >>

\* ctx.Err()
ctxErr(c) ==
    CASE c = "active" -> NilErr
      [] c = "canceled" -> Err(<<"context canceled">>)
      [] c = "deadline" -> Err(<<"context deadline exceeded">>)

\* only context.Canceled tested, the deadline forgotten
IsCancelledOnly(c) == ctxErr(c) = Err(<<"context canceled">>)

\* errors.Is(ctx.Err(), context.Canceled) || errors.Is(ctx.Err(), context.DeadlineExceeded)
IsCancelled(c) ==
    \/ ctxErr(c) = Err(<<"context canceled">>)
    \/ ctxErr(c) = Err(<<"context deadline exceeded">>)

\* strings.ToLower, on the atoms of the action names
LowerAtom(a) ==
    CASE a = "Execute speech synthesis" -> "execute speech synthesis"
      [] a = "Retrieve voice list" -> "retrieve voice list"
      [] OTHER -> a
ToLower(s) == [i \in 1..Len(s) |-> LowerAtom(s[i])]

\* the tail shared by every execution-failure message: the captured output,
\* when there is some
WithOutput(errMsg, out) ==
    IF Len(out) > 0 THEN errMsg \o <<"\nOutput: ">> \o out ELSE errMsg

\* part_000: formatCommandError(ctx, action, err, output)
formatCommandError(c, action, err, out) ==
    IF IsCancelled(c)
    THEN action \o <<" cancelled: ">> \o ctxErr(c).msg
    ELSE LET errMsg == WithOutput(<<"Failed to ">> \o ToLower(action) \o <<": ">>
                                  \o err.msg, out)
         IN  IF Contains(err.msg, <<"permission denied">>)
             THEN errMsg \o permissionGuidance
             ELSE errMsg

\* main.go: the error branch of handleSpeak
speakCommandError(c, err, out) ==
    IF IsCancelled(c)
    THEN <<"Speech synthesis", " cancelled: ">> \o ctxErr(c).msg
    ELSE LET errMsg == WithOutput(<<"Failed to ", "execute speech synthesis", ": ">>
                                  \o err.msg, out)
         IN  IF Contains(err.msg, <<"permission denied">>)
             THEN errMsg \o permissionGuidance
             ELSE errMsg

\* main.go: the error branch of handleVoices
voicesCommandError(c, err, out) ==
    IF IsCancelled(c)
    THEN <<"Voice listing", " cancelled: ">> \o ctxErr(c).msg
    ELSE WithOutput(<<"Failed to ", "retrieve voice list", ": ">> \o err.msg, out)

(***************************************************************************)
(* handleSpeak: validation and the argument list                           *)
(***************************************************************************)

\* fractional rates are held in units of 1/RateScale
RateScale == 10
MinRate == 90
MaxRate == 500

\* request.RequireString(key) of mcp-go
RequireString(a, key) ==
    LET v == a[key] IN
    IF v.t = "absent"
    THEN [s |-> <<>>, err |-> Err(<<"required argument \"", key, "\" not found">>)]
    ELSE IF v.t # "string"
    THEN [s |-> <<>>, err |-> Err(<<"argument \"", key, "\" is not a string">>)]
    ELSE [s |-> v.s, err |-> NilErr]

\* fmt.Sprintf("%.0f", rate): the nearest integer, a tie going to the even one
FormatRate(rate) ==
    LET abs == IF rate < 0 THEN 0 - rate ELSE rate
        q == abs \div RateScale
        f == abs % RateScale
    IN  (IF rate < 0 THEN <<"-">> ELSE <<>>)
        \o Itoa(IF 2 * f < RateScale THEN q
                ELSE IF 2 * f > RateScale THEN q + 1
                ELSE IF q % 2 = 0 THEN q ELSE q + 1)

\* the emptiness check made on the text as received, before the trim
TextEmptyUntrimmed(raw) == raw = <<>>

\* text == "" after strings.TrimSpace
TextEmpty(raw) == TrimSpace(raw) = <<>>

\* voice, ok := allArgs["voice"].(string); ok && voice != ""
VoiceUsed(a) == a.voice.t = "string" /\ a.voice.s # <<>>

\* every number taken as a rate, without the "rate > 0" test
RateUsedAnyNumber(a) == a.rate.t = "number"

\* rate, ok := allArgs["rate"].(float64); ok && rate > 0
RateUsed(a) == a.rate.t = "number" /\ a.rate.n > 0

\* the lower limit itself rejected: rate <= 90 || rate > 500
RateOutOfRangeStrict(rate) ==
    rate <= MinRate * RateScale \/ rate > MaxRate * RateScale

\* rate < 90 || rate > 500
RateOutOfRange(rate) == rate < MinRate * RateScale \/ rate > MaxRate * RateScale

\* the rate appended before the voice
BuildArgsRateFirst(a, txt) ==
    (IF RateUsed(a) THEN << <<"-", "r">>, FormatRate(a.rate.n) >> ELSE <<>>)
    \o (IF VoiceUsed(a) THEN << <<"-", "v">>, a.voice.s >> ELSE <<>>)
    \o <<txt>>

\* the three appends of handleSpeak, in the order of the code
BuildArgs(a, txt) ==
    (IF VoiceUsed(a) THEN << <<"-", "v">>, a.voice.s >> ELSE <<>>)
    \o (IF RateUsed(a) THEN << <<"-", "r">>, FormatRate(a.rate.n) >> ELSE <<>>)
    \o <<txt>>

RateErrorMessage(rate) ==
    <<"Rate ">> \o FormatRate(rate)
    \o <<" is outside acceptable range (90-500 words per minute)">>

\* handleSpeak up to the call of exec.CommandContext: an early return (done),
\* or the trimmed text and the argument list
SpeakPrepare(a) ==
    LET t == RequireString(a, "text")
        early(msg) == [done |-> TRUE, ret |-> ReturnResult(NewToolResultError(msg)),
                       text |-> <<>>, args |-> <<>>]
    IN  IF ~t.err.nil
        THEN early(<<"Invalid parameter 'text': ">> \o t.err.msg)
        ELSE IF TextEmpty(t.s)
        THEN early(<<"Parameter 'text' cannot be empty">>)
        ELSE IF RateUsed(a) /\ RateOutOfRange(a.rate.n)
        THEN early(RateErrorMessage(a.rate.n))
        ELSE [done |-> FALSE, ret |-> NoReturn, text |-> TrimSpace(t.s),
              args |-> BuildArgs(a, TrimSpace(t.s))]

(***************************************************************************)
(* handleVoices: the response                                              *)
(***************************************************************************)

VoiceJSON(v) ==
    <<"{\"name\": \"">> \o v.Name \o <<"\", \"locale\": \"">> \o v.Locale
    \o <<"\", \"description\": \"">> \o v.Description \o <<"\"}">>

RECURSIVE VoicesJSON(_)
VoicesJSON(vs) ==
    IF vs = <<>> THEN <<>>
    ELSE VoiceJSON(Head(vs)) \o (IF Len(vs) > 1 THEN <<",">> ELSE <<>>)
         \o VoicesJSON(Tail(vs))

\* json.MarshalIndent of {Voices: voices}; strings and slices always marshal
MarshalIndent(vs) ==
    [err |-> NilErr, data |-> <<"{\"voices\": [">> \o VoicesJSON(vs) \o <<"]}">>]

\* the command failed: the message of the error result
SpeakFailure(b, c, err, out) ==
    IF b = "part_000"
    THEN formatCommandError(c, <<"Execute speech synthesis">>, err, out)
    ELSE speakCommandError(c, err, out)

VoicesFailure(b, c, err, out) ==
    IF b = "part_000"
    THEN formatCommandError(c, <<"Retrieve voice list">>, err, out)
    ELSE voicesCommandError(c, err, out)

\* handleSpeak after cmd.CombinedOutput()
SpeakReturn(b, c, txt, err, out) ==
    IF ~err.nil
    THEN ReturnResult(NewToolResultError(SpeakFailure(b, c, err, out)))
    ELSE ReturnResult(NewToolResultText(<<"Successfully spoke: ">> \o txt))

\* handleVoices after cmd.CombinedOutput()
VoicesReturn(b, c, err, out) ==
    IF ~err.nil
    THEN ReturnResult(NewToolResultError(VoicesFailure(b, c, err, out)))
    ELSE LET m == MarshalIndent(ParseVoices(out)) IN
         IF ~m.err.nil
         THEN ReturnResult(NewToolResultError(<<"Failed to format voice list: ">>
                                              \o m.err.msg))
         ELSE ReturnResult(NewToolResultText(m.data))

(***************************************************************************)
(* The requests                                                            *)
(***************************************************************************)

\* two handler invocations the transport may run at the same time
Reqs == {1, 2}

Builds == {"main.go", "part_000"}

NoArgs == [text |-> Absent, voice |-> Absent, rate |-> Absent]

TextValues ==
    { Absent, Num(RateScale), Str(<<>>), Str(<<" ", "\t">>),
      Str(<<" ", "h", "i", "\n">>), Str(<<"a", " ", "b">>) }

VoiceValues == { Absent, Bool, Str(<<>>), Str(<<"A", "l">>), Str(<<" ">>) }

RateBases == {0, MinRate - 1, MinRate, 120, 121, MaxRate - 1, MaxRate, 900}

\* the fractional parts tried: none, just below a half, a half, just above, the last
RateFractions ==
    {0, RateScale \div 2 - 1, RateScale \div 2, RateScale \div 2 + 1, RateScale - 1}

RateValues ==
    { Absent, Str(<<"1", "2", "0">>), Num(0 - RateScale) }
    \cup { Num(b * RateScale + d) : b \in RateBases, d \in RateFractions }

SpeakArgs == [text : TextValues, voice : VoiceValues, rate : RateValues]

\* the requests of the runs where two handlers interleave
SmallSpeakArgs ==
    [text : {Str(<<>>), Str(<<" ", "h", "i", "\n">>)},
     voice : {Str(<<"A", "l">>)},
     rate : {Absent, Num(900 * RateScale)}]

\* why starting /usr/bin/say can fail
StartErrors ==
    { Err(<<"fork/exec ", "/usr/bin/say", ": ", "permission denied">>),
      Err(<<"fork/exec ", "/usr/bin/say", ": ", "no such file or directory">>) }

Catalog ==
    << "A", " ", "e", " ", "#", " ", "H", "\n",
       "h", "d", "r", "\n",
       "\n",
       "B", " ", " ", "f", " ", "#", "\n" >>

\* what the command may have written to stdout and stderr
ProcOutputs == { <<>>, <<"Voice `X' not found.">>, Catalog }

\* the result kept in one place for all handlers: an error overwrites the
\* response another request is about to send
RespondShared(r, rv) ==
    /\ ret' = [q \in Reqs |->
                 IF q = r \/ (rv.result.isError /\ pc[q] = "done") THEN rv ELSE ret[q]]
    /\ returns' = [returns EXCEPT ![r] = @ + 1]
    /\ pc' = [pc EXCEPT ![r] = "done"]

\* return: the handler hands its result to the transport
Respond(r, rv) ==
    /\ ret' = [ret EXCEPT ![r] = rv]
    /\ returns' = [returns EXCEPT ![r] = @ + 1]
    /\ pc' = [pc EXCEPT ![r] = "done"]

\* the transport calls a handler with a request and a fresh context
Call(r, tool, a) ==
    /\ pc[r] = "idle"
    /\ pc' = [pc EXCEPT ![r] = "called"]
    /\ req' = [req EXCEPT ![r] = [tool |-> tool, args |-> a]]
    /\ UNCHANGED <<build, ctx, text, argv, invoked, proc, perr, pout, ctxAtExit, ret, returns>>
    /\ UNCHANGED pvars

\* the caller cancels the request, or its deadline passes
Cancel(r, why) ==
    /\ pc[r] \in {"called", "exec", "wait", "returned"}
    /\ ctx[r] = "active"
    /\ ctx' = [ctx EXCEPT ![r] = why]
    /\ UNCHANGED <<build, pc, req, text, argv, invoked, proc, perr, pout, ctxAtExit, ret, returns>>
    /\ UNCHANGED pvars

\* handleSpeak from its first line to the last append to args
HandleSpeakPrepare(r) ==
    /\ pc[r] = "called"
    /\ req[r].tool = "speak"
    /\ LET p == SpeakPrepare(req[r].args) IN
       IF p.done
       THEN /\ Respond(r, p.ret)
            /\ UNCHANGED <<text, argv>>
       ELSE /\ pc' = [pc EXCEPT ![r] = "exec"]
            /\ text' = [text EXCEPT ![r] = p.text]
            /\ argv' = [argv EXCEPT ![r] = p.args]
            /\ UNCHANGED <<ret, returns>>
    /\ UNCHANGED <<build, req, ctx, invoked, proc, perr, pout, ctxAtExit>>
    /\ UNCHANGED pvars

\* handleVoices: exec.CommandContext(ctx, sayCommand, "-v", "?")
HandleVoicesPrepare(r) ==
    /\ pc[r] = "called"
    /\ req[r].tool = "list_voices"
    /\ pc' = [pc EXCEPT ![r] = "exec"]
    /\ argv' = [argv EXCEPT ![r] = << <<"-", "v">>, <<"?">> >>]
    /\ UNCHANGED <<build, req, ctx, text, invoked, proc, perr, pout, ctxAtExit, ret, returns>>
    /\ UNCHANGED pvars

\* cmd.CombinedOutput() with the context already done: Start returns ctx.Err()
\* and no process is created
ExecRefused(r) ==
    /\ pc[r] = "exec"
    /\ ctx[r] # "active"
    /\ pc' = [pc EXCEPT ![r] = "returned"]
    /\ invoked' = [invoked EXCEPT ![r] = TRUE]
    /\ perr' = [perr EXCEPT ![r] = ctxErr(ctx[r])]
    /\ ctxAtExit' = [ctxAtExit EXCEPT ![r] = ctx[r]]
    /\ UNCHANGED <<build, req, ctx, text, argv, proc, pout, ret, returns>>
    /\ UNCHANGED pvars

\* cmd.CombinedOutput(): the command cannot be started
ExecStartFails(r, e) ==
    /\ pc[r] = "exec"
    /\ ctx[r] = "active"
    /\ pc' = [pc EXCEPT ![r] = "returned"]
    /\ invoked' = [invoked EXCEPT ![r] = TRUE]
    /\ perr' = [perr EXCEPT ![r] = e]
    /\ ctxAtExit' = [ctxAtExit EXCEPT ![r] = ctx[r]]
    /\ UNCHANGED <<build, req, ctx, text, argv, proc, pout, ret, returns>>
    /\ UNCHANGED pvars

\* cmd.CombinedOutput(): the command is started and the handler waits for it
ExecStarts(r) ==
    /\ pc[r] = "exec"
    /\ ctx[r] = "active"
    /\ pc' = [pc EXCEPT ![r] = "wait"]
    /\ invoked' = [invoked EXCEPT ![r] = TRUE]
    /\ proc' = [proc EXCEPT ![r] = "running"]
    /\ UNCHANGED <<build, req, ctx, text, argv, perr, pout, ctxAtExit, ret, returns>>
    /\ UNCHANGED pvars

\* the command exits on its own.  With the context done by then, Wait reports
\* the exit status if it is a failure and ctx.Err() otherwise.
ProcExit(r, status, out) ==
    /\ pc[r] = "wait"
    /\ proc[r] = "running"
    /\ pc' = [pc EXCEPT ![r] = "returned"]
    /\ proc' = [proc EXCEPT ![r] = "exited"]
    /\ perr' = [perr EXCEPT ![r] =
                  IF status # 0 THEN Err(<<"exit status ", Digit(status)>>)
                  ELSE ctxErr(ctx[r])]
    /\ pout' = [pout EXCEPT ![r] = out]
    /\ ctxAtExit' = [ctxAtExit EXCEPT ![r] = ctx[r]]
    /\ UNCHANGED <<build, req, ctx, text, argv, invoked, ret, returns>>
    /\ UNCHANGED pvars

\* the context is done while the command runs: exec kills it
ProcKilled(r, out) ==
    /\ pc[r] = "wait"
    /\ proc[r] = "running"
    /\ ctx[r] # "active"
    /\ pc' = [pc EXCEPT ![r] = "returned"]
    /\ proc' = [proc EXCEPT ![r] = "exited"]
    /\ perr' = [perr EXCEPT ![r] = Err(<<"signal: killed">>)]
    /\ pout' = [pout EXCEPT ![r] = out]
    /\ ctxAtExit' = [ctxAtExit EXCEPT ![r] = ctx[r]]
    /\ UNCHANGED <<build, req, ctx, text, argv, invoked, ret, returns>>
    /\ UNCHANGED pvars

\* handleSpeak from "if err != nil" to its return
HandleSpeakFinish(r) ==
    /\ pc[r] = "returned"
    /\ req[r].tool = "speak"
    /\ Respond(r, SpeakReturn(build, ctx[r], text[r], perr[r], pout[r]))
    /\ UNCHANGED <<build, req, ctx, text, argv, invoked, proc, perr, pout, ctxAtExit>>
    /\ UNCHANGED pvars

\* handleVoices from "if err != nil" to its return
HandleVoicesFinish(r) ==
    /\ pc[r] = "returned"
    /\ req[r].tool = "list_voices"
    /\ Respond(r, VoicesReturn(build, ctx[r], perr[r], pout[r]))
    /\ UNCHANGED <<build, req, ctx, text, argv, invoked, proc, perr, pout, ctxAtExit>>
    /\ UNCHANGED pvars

\* the transport sends the response; the handler's locals are gone
Deliver(r) ==
    /\ pc[r] = "done"
    /\ pc' = [pc EXCEPT ![r] = "idle"]
    /\ req' = [req EXCEPT ![r] = [tool |-> "none", args |-> NoArgs]]
    /\ ctx' = [ctx EXCEPT ![r] = "active"]
    /\ text' = [text EXCEPT ![r] = <<>>]
    /\ argv' = [argv EXCEPT ![r] = <<>>]
    /\ invoked' = [invoked EXCEPT ![r] = FALSE]
    /\ proc' = [proc EXCEPT ![r] = "none"]
    /\ perr' = [perr EXCEPT ![r] = NilErr]
    /\ pout' = [pout EXCEPT ![r] = <<>>]
    /\ ctxAtExit' = [ctxAtExit EXCEPT ![r] = "none"]
    /\ ret' = [ret EXCEPT ![r] = NoReturn]
    /\ returns' = [returns EXCEPT ![r] = 0]
    /\ UNCHANGED build
    /\ UNCHANGED pvars

Step(r) ==
    \/ \E why \in {"canceled", "deadline"} : Cancel(r, why)
    \/ HandleSpeakPrepare(r)
    \/ HandleVoicesPrepare(r)
    \/ ExecRefused(r)
    \/ \E e \in StartErrors : ExecStartFails(r, e)
    \/ ExecStarts(r)
    \/ \E status \in {0, 1}, out \in ProcOutputs : ProcExit(r, status, out)
    \/ \E out \in {<<>>, <<"Voice `X' not found.">>} : ProcKilled(r, out)
    \/ HandleSpeakFinish(r)
    \/ HandleVoicesFinish(r)
    \/ Deliver(r)

HandlerInit ==
    /\ build \in Builds
    /\ pc = [r \in Reqs |-> "idle"]
    /\ req = [r \in Reqs |-> [tool |-> "none", args |-> NoArgs]]
    /\ ctx = [r \in Reqs |-> "active"]
    /\ text = [r \in Reqs |-> <<>>]
    /\ argv = [r \in Reqs |-> <<>>]
    /\ invoked = [r \in Reqs |-> FALSE]
    /\ proc = [r \in Reqs |-> "none"]
    /\ perr = [r \in Reqs |-> NilErr]
    /\ pout = [r \in Reqs |-> <<>>]
    /\ ctxAtExit = [r \in Reqs |-> "none"]
    /\ ret = [r \in Reqs |-> NoReturn]
    /\ returns = [r \in Reqs |-> 0]

ParserIdle ==
    /\ output = <<>>
    /\ lines = <<>>
    /\ idx = 0
    /\ voices = <<>>
    /\ ppc = "off"

Init == HandlerInit /\ ParserIdle

\* one handler at a time, every request the transport can deliver
Next ==
    \/ \E a \in SpeakArgs : Call(1, "speak", a)
    \/ Call(1, "list_voices", NoArgs)
    \/ Step(1)

Spec == Init /\ [][Next]_vars

\* two handlers interleaved
NextConc ==
    \E r \in Reqs :
        \/ \E a \in SmallSpeakArgs : Call(r, "speak", a)
        \/ Call(r, "list_voices", NoArgs)
        \/ Step(r)

SpecConc == Init /\ [][NextConc]_vars

(***************************************************************************)
(* The parser on its own: every short output, and catalogs of whole lines  *)
(***************************************************************************)

MaxLen == 6
MaxLines == 5

Alphabet == {"a", " ", "#", "\n"}

RECURSIVE Join(_, _)
Join(ls, sep) ==
    IF ls = <<>> THEN <<>>
    ELSE IF Len(ls) = 1 THEN ls[1]
    ELSE ls[1] \o <<sep>> \o Join(Tail(ls), sep)

\* lines of a catalog: three well-formed ones, a header, a blank line
LineCatalog ==
    { <<"A", "l", " ", " ", "e", "n", " ", "#", " ", "H", "i", "!", "\r">>,
      <<"E", " ", "(", "U", ")", " ", "u", "s", "\t", "#", "x", " ", "#", "y">>,
      <<" ", "B", " ", "f", "r", " ", "#", " ", "B", " ", "j", " ">>,
      <<"V", "o", "i", "c", "e", "s", ":">>,
      <<>> }

Outputs ==
    UNION { [1..n -> Alphabet] : n \in 0..MaxLen }
    \cup { Join(ls, "\n") : ls \in UNION { [1..n -> LineCatalog] : n \in 1..MaxLines } }

ParseInit ==
    /\ HandlerInit
    /\ build = "part_000"
    /\ output \in Outputs
    /\ lines = <<>>
    /\ idx = 0
    /\ voices = <<>>
    /\ ppc = "start"

\* handleVoices from strings.Split to the end of the loop
ParseApply ==
    /\ ppc = "start"
    /\ lines' = Split(output, "\n")
    /\ voices' = ParseVoices(output)
    /\ idx' = Len(Split(output, "\n"))
    /\ ppc' = "done"
    /\ UNCHANGED output
    /\ UNCHANGED hvars

SpecParse == ParseInit /\ [][ParseApply]_vars

(***************************************************************************)
(* The catalog line shape, stated on whitespace-separated fields           *)
(***************************************************************************)

\* where the fields of t start
FieldStarts(t) ==
    { x \in 1..Len(t) : ~IsSpace(t[x]) /\ (x = 1 \/ IsSpace(t[x - 1])) }

\* the fields, from the third on, that begin with the marker
Markers(t) ==
    { x \in FieldStarts(t) :
        t[x] = "#" /\ Cardinality({ y \in FieldStarts(t) : y < x }) >= 2 }

\* <name> <whitespace> <locale> <whitespace> # <description>
WellFormed(rawLine) == Markers(TrimSpace(rawLine)) # {}

\* the record of a well-formed line: the locale is the field before the first
\* marker, the name what stands before it, the description what follows
ExpectedVoice(rawLine) ==
    LET t == TrimSpace(rawLine)
        p == CHOOSE x \in Markers(t) : \A y \in Markers(t) : x <= y
        s == CHOOSE x \in FieldStarts(t) :
                 x < p /\ \A y \in FieldStarts(t) : y < p => y <= x
    IN  Voice(TrimSpace(SubSeq(t, 1, s - 1)), TrimSpace(SubSeq(t, s, p - 1)),
              TrimSpace(SubSeq(t, p + 1, Len(t))))

WellFormedLines == { i \in 1..Len(lines) : WellFormed(lines[i]) }

\* C6: the parser returns exactly one Voice per well-formed line of the
\* output and none for any other line (blank, or without the marker), and the
\* records stand in the order of their lines.
C6_OneVoicePerWellFormedLineInOrder ==
    ppc = "done" =>
        /\ Join(lines, "\n") = output
        /\ \A i \in 1..Len(lines) : \A x \in 1..Len(lines[i]) : lines[i][x] # "\n"
        /\ Len(voices) = Cardinality(WellFormedLines)
        /\ \A i \in WellFormedLines :
               voices[Cardinality({ j \in WellFormedLines : j <= i })]
                   = ExpectedVoice(lines[i])

\* three well-formed lines with a header and a blank line between them
C6_Witness ==
    /\ ppc = "done"
    /\ Len(lines) = 5
    /\ WellFormedLines = {1, 3, 5}
    /\ lines[2] # <<>> /\ lines[4] = <<>>
    /\ Len(voices) = 3
    /\ voices[1] # voices[2] /\ voices[2] # voices[3] /\ voices[1] # voices[3]

\* C7: every Voice the parser produces has a non-empty name, locale and
\* description.
C7_AllFieldsPopulated ==
    ppc = "done" =>
        \A k \in 1..Len(voices) :
            /\ TrimSpace(voices[k].Name) # <<>>
            /\ TrimSpace(voices[k].Locale) # <<>>
            /\ TrimSpace(voices[k].Description) # <<>>

(***************************************************************************)
(* Properties of the handlers                                              *)
(***************************************************************************)

IsSpeak(r) == req[r].tool = "speak"
\* the handler is past its validation
Past(r) == pc[r] \in {"exec", "wait", "returned", "done"}
Started(r) == pc[r] \in {"wait", "returned", "done"} /\ invoked[r]

\* text is a string with at least one character that is not whitespace
ValidText(a) ==
    a.text.t = "string" /\ \E x \in 1..Len(a.text.s) : ~IsSpace(a.text.s[x])
\* text is a string, empty or of whitespace only
BlankText(a) == a.text.t = "string" /\ AllSpace(a.text.s, 1, Len(a.text.s))

IsDigits(tok) ==
    Len(tok) > 0 /\ \A x \in 1..Len(tok) : \E d \in 0..9 : tok[x] = Digit(d)
RECURSIVE Atoi(_)
Atoi(tok) ==
    IF tok = <<>> THEN 0
    ELSE 10 * Atoi(SubSeq(tok, 1, Len(tok) - 1))
         + (CHOOSE d \in 0..9 : Digit(d) = tok[Len(tok)])

VoiceFlag == <<"-", "v">>
RateFlag == <<"-", "r">>

\* the response is the error result with this first atom
ErrorStarting(r, atom) ==
    /\ pc[r] = "done"
    /\ ret[r].has /\ ret[r].result.isError
    /\ Len(ret[r].result.text) > 0
    /\ ret[r].result.text[1] = atom

NothingStarted(r) == ~invoked[r] /\ proc[r] = "none" /\ argv[r] = <<>>

\* C1: a speak request whose text is empty or only whitespace ends with the
\* validation error and nothing is executed, whatever voice and rate are;
\* and whenever speak has called the command, the last token is the trimmed
\* text, whole, with a character that is not whitespace at both ends.
C1_BlankTextNeverInvokes ==
    \A r \in Reqs :
        /\ (IsSpeak(r) /\ BlankText(req[r].args) /\ pc[r] # "called") =>
               /\ ErrorStarting(r, "Parameter 'text' cannot be empty")
               /\ NothingStarted(r)
        /\ (IsSpeak(r) /\ invoked[r]) =>
               /\ Len(argv[r]) \in {1, 3, 5}
               /\ LET tok == argv[r][Len(argv[r])]
                      raw == req[r].args.text.s
                  IN  /\ req[r].args.text.t = "string"
                      /\ Len(tok) > 0
                      /\ ~IsSpace(tok[1]) /\ ~IsSpace(tok[Len(tok)])
                      /\ \E i \in 0..Len(raw) :
                             /\ raw = SubSeq(raw, 1, i) \o tok
                                      \o SubSeq(raw, i + Len(tok) + 1, Len(raw))
                             /\ AllSpace(raw, 1, i)
                             /\ AllSpace(raw, i + Len(tok) + 1, Len(raw))

\* whitespace-only text with a usable voice and rate: rejected, nothing run
C1_Witness ==
    \E r \in Reqs :
        /\ IsSpeak(r) /\ pc[r] = "done"
        /\ req[r].args.text = Str(<<" ", "\t">>)
        /\ VoiceUsed(req[r].args)
        /\ req[r].args.rate = Num(120 * RateScale)
        /\ ret[r].result.isError
        /\ ~invoked[r]

\* C2: with valid text and a numeric rate, a rate in [90, 500] puts "-r" and
\* then the nearest integer, in decimal, within 90..500, into the argument
\* list; a rate above 0 and outside [90, 500] ends with the validation error,
\* no argument list and no process.
C2_RateTokenOrValidationError ==
    \A r \in Reqs :
        LET a == req[r].args
            n == a.rate.n
        IN  (IsSpeak(r) /\ ValidText(a) /\ a.rate.t = "number" /\ pc[r] # "called") =>
               /\ (MinRate * RateScale <= n /\ n <= MaxRate * RateScale) =>
                      /\ Past(r)
                      /\ \E i \in 1..(Len(argv[r]) - 2) :
                             /\ argv[r][i] = RateFlag
                             /\ IsDigits(argv[r][i + 1])
                             /\ Atoi(argv[r][i + 1]) \in MinRate..MaxRate
                             /\ 2 * (Atoi(argv[r][i + 1]) * RateScale - n) <= RateScale
                             /\ 2 * (n - Atoi(argv[r][i + 1]) * RateScale) <= RateScale
               /\ (n > 0 /\ (n < MinRate * RateScale \/ n > MaxRate * RateScale)) =>
                      /\ ErrorStarting(r, "Rate ")
                      /\ NothingStarted(r)

\* a fractional rate inside the range, rounded down, and the command started
C2_Witness ==
    \E r \in Reqs :
        /\ IsSpeak(r) /\ Started(r)
        /\ req[r].args.rate.t = "number"
        /\ req[r].args.rate.n % RateScale # 0
        /\ req[r].args.rate.n \div RateScale = 120
        /\ \E i \in 1..(Len(argv[r]) - 2) :
               argv[r][i] = RateFlag /\ argv[r][i + 1] = <<"1", "2", "0">>

\* C3: the argument list handed to the command is ["-v", voice]? followed by
\* ["-r", rate]? followed by the trimmed text: 1, 3 or 5 tokens, a non-empty
\* voice verbatim right after "-v" at the front, "-r" and its token right
\* before the text, the text last, and nothing else.
C3_ArgumentShape ==
    \A r \in Reqs :
        (IsSpeak(r) /\ invoked[r]) =>
            LET a == req[r].args
                n == Len(argv[r])
                v == a.voice.t = "string" /\ Len(a.voice.s) > 0
                rt == \E i \in 1..n : argv[r][i] = RateFlag
            IN  /\ n = 1 + (IF v THEN 2 ELSE 0) + (IF rt THEN 2 ELSE 0)
                /\ v => argv[r][1] = VoiceFlag /\ argv[r][2] = a.voice.s
                /\ rt => argv[r][n - 2] = RateFlag /\ IsDigits(argv[r][n - 1])
                /\ argv[r][n] = TrimSpace(a.text.s)
                /\ \A i \in 1..n : argv[r][i] = VoiceFlag => (v /\ i = 1)

\* voice, rate and text together: five tokens
C3_Witness ==
    \E r \in Reqs :
        /\ IsSpeak(r) /\ Started(r)
        /\ Len(argv[r]) = 5
        /\ argv[r][1] = VoiceFlag /\ argv[r][3] = RateFlag
        /\ argv[r][5] = <<"a", " ", "b">>

CancellationClass(msg, c) ==
    /\ Len(msg) = 3
    /\ msg[1] \in {"Execute speech synthesis", "Retrieve voice list",
                   "Speech synthesis", "Voice listing"}
    /\ msg[2] = " cancelled: "
    /\ <<msg[3]>> = ctxErr(c).msg
FailureClass(msg) == Len(msg) > 0 /\ msg[1] = "Failed to "

\* C4: when the context was cancelled, or its deadline exceeded, before the
\* command completed, speak and list_voices answer with the cancellation
\* message and never with a "Failed to ..." message, whatever the command's
\* own exit was.
C4_CancellationTakesPrecedence ==
    \A r \in Reqs :
        (pc[r] = "done" /\ ctxAtExit[r] \in {"canceled", "deadline"}) =>
            /\ ret[r].has /\ ret[r].result.isError
            /\ CancellationClass(ret[r].result.text, ctx[r])
            /\ ~FailureClass(ret[r].result.text)

\* the deadline passed while the command ran, and the command failed by itself
C4_Witness ==
    \E r \in Reqs :
        /\ pc[r] = "done"
        /\ ctxAtExit[r] = "deadline"
        /\ proc[r] = "exited"
        /\ perr[r] = Err(<<"exit status ", "1">>)
        /\ pout[r] # <<>>
        /\ CancellationClass(ret[r].result.text, "deadline")

EndsWith(s, suffix) ==
    Len(s) >= Len(suffix) /\ SubSeq(s, Len(s) - Len(suffix) + 1, Len(s)) = suffix

\* C5: whenever the command fails with an error whose text contains
\* "permission denied", the message returned ends with the remediation text,
\* after the "Failed to ..." message and the captured output.
C5_PermissionGuidanceAlways ==
    \A r \in Reqs :
        (pc[r] = "done" /\ invoked[r] /\ ~perr[r].nil
           /\ Contains(perr[r].msg, <<"permission denied">>)) =>
            /\ ret[r].has /\ ret[r].result.isError
            /\ FailureClass(ret[r].result.text)
            /\ EndsWith(ret[r].result.text, permissionGuidance)

\* C8: on every path a handler ends with exactly one response, an ok result
\* or an error result with its text, and its error return is nil.
C8_AlwaysOneWellFormedResult ==
    \A r \in Reqs :
        /\ pc[r] = "done" =>
               /\ returns[r] = 1
               /\ ret[r].has
               /\ ret[r].err.nil
               /\ ret[r].result.isError \in BOOLEAN
               /\ Len(ret[r].result.text) > 0
        /\ pc[r] # "done" => returns[r] = 0 /\ ~ret[r].has /\ ret[r].err.nil

\* list_voices failed to start the command and still returned a result
C8_Witness ==
    \E r \in Reqs :
        /\ pc[r] = "done"
        /\ req[r].tool = "list_voices"
        /\ perr[r] \in StartErrors
        /\ ctx[r] = "active"
        /\ returns[r] = 1
        /\ ret[r].has /\ ret[r].result.isError /\ ret[r].err.nil

\* what belongs to one request
Own(r) == << pc[r], req[r], ctx[r], text[r], argv[r], invoked[r], proc[r],
             perr[r], pout[r], ctxAtExit[r], ret[r], returns[r] >>

\* what a response may depend on
OwnInputs(r) == << req[r], ctx[r], perr[r], pout[r] >>

\* C10: with handlers running concurrently, a step of one request changes
\* nothing that belongs to another, and two requests with the same arguments,
\* the same context and the same outcome of their own command have the same
\* response, whatever the other request did meanwhile or before.
C10_RequestsIndependent ==
    /\ [](\A r, q \in Reqs :
             (pc[r] = "done" /\ pc[q] = "done" /\ OwnInputs(r) = OwnInputs(q))
                 => ret[r] = ret[q])
    /\ [][ /\ build' = build
           /\ \A r, q \in Reqs :
                  (r # q /\ Own(r)' # Own(r)) => Own(q)' = Own(q) ]_vars

\* one request answered with a validation error while the other, still
\* waiting to be sent, succeeded
C10_Witness ==
    \E r, q \in Reqs :
        /\ r # q
        /\ pc[r] = "done" /\ pc[q] = "done"
        /\ ret[r].result.isError
        /\ ret[r].result.text[1] = "Parameter 'text' cannot be empty"
        /\ ~ret[q].result.isError

====
